---- MODULE Spec2Model ----
(***************************************************************************)
(* The Gemini chat endpoint of nn-tools-services: GeminiChatEndpoint as    *)
(* written with raw fetch (geminiChat.ts 12-281) and as written with the   *)
(* official SDK (geminiChat.ts 293-532).  One inbound request is handled   *)
(* by handle; in streaming mode the ReadableStream's start callback then   *)
(* runs one loop iteration per upstream read.                              *)
(*                                                                         *)
(* The wire text is a sequence of units.  A unit is one character ("d",    *)
(* "\n"), one byte of a multi-byte character ("C3", "A9" for U+00E9), or   *)
(* a run of JSON text that the model never looks inside (Head, Tail, ...). *)
(* An upstream read may end between any two units.                         *)
(***************************************************************************)
EXTENDS Integers, Sequences, FiniteSets, TLC

\* ---------------------------------------------------------------- bounds
MaxLines == 2       \* lines of a provider event stream drawn freely from CoreLines
MaxSdkChunks == 2   \* chunks an SDK stream yields

\* ------------------------------------------------------- option values
None == <<>>
Some(v) == <<v>>
IsSome(o) == o # <<>>
Get(o) == o[1]

\* ------------------------------------------------------ sequence helpers
RECURSIVE Flatten(_)
Flatten(ss) == IF ss = <<>> THEN <<>> ELSE Head(ss) \o Flatten(Tail(ss))

StartsWith(s, p) == Len(s) >= Len(p) /\ SubSeq(s, 1, Len(p)) = p

Slice(s, n) == SubSeq(s, n + 1, Len(s))

\* String.prototype.split("\n"): the pieces between newlines, empty ones kept.
RECURSIVE SplitFrom(_, _, _)
SplitFrom(s, i, cur) ==
  IF i > Len(s) THEN <<cur>>
  ELSE IF s[i] = "\n" THEN <<cur>> \o SplitFrom(s, i + 1, <<>>)
  ELSE SplitFrom(s, i + 1, Append(cur, s[i]))

Split(s) == SplitFrom(s, 1, <<>>)

\* String.prototype.trim(): leading and trailing white space removed.
WhiteSpace == {" ", "\n"}

RECURSIVE TrimLeft(_)
TrimLeft(s) ==
  IF s # <<>> /\ Head(s) \in WhiteSpace THEN TrimLeft(Tail(s)) ELSE s

RECURSIVE TrimRight(_)
TrimRight(s) ==
  IF s # <<>> /\ s[Len(s)] \in WhiteSpace
  THEN TrimRight(SubSeq(s, 1, Len(s) - 1)) ELSE s

Trim(s) == TrimRight(TrimLeft(s))

\* ------------------------------------------------ TextDecoder / TextEncoder
\* UTF-8 with one two-byte character: bytes C3 A9 are the character E9.
LeadByte == "C3"
ContByte == "A9"
Replacement == "FFFD"

\* new TextDecoder().decode(value, {stream: true}): pending is the lead byte
\* the decoder kept from the previous call.
RECURSIVE DecodeFrom(_, _, _, _)
DecodeFrom(bytes, i, pending, out) ==
  IF i > Len(bytes) THEN [chars |-> out, pending |-> pending]
  ELSE LET b == bytes[i] IN
    IF pending # <<>>
    THEN IF b = ContByte
         THEN DecodeFrom(bytes, i + 1, <<>>, Append(out, "E9"))
         ELSE DecodeFrom(bytes, i, <<>>, Append(out, Replacement))
    ELSE IF b = LeadByte THEN DecodeFrom(bytes, i + 1, <<b>>, out)
    ELSE IF b = ContByte THEN DecodeFrom(bytes, i + 1, <<>>, Append(out, Replacement))
    ELSE DecodeFrom(bytes, i + 1, <<>>, Append(out, b))

Decode(bytes, pending) == DecodeFrom(bytes, 1, pending, <<>>)

\* new TextEncoder().encode(text)
RECURSIVE Encode(_)
Encode(chars) ==
  IF chars = <<>> THEN <<>>
  ELSE (CASE Head(chars) = "E9" -> <<LeadByte, ContByte>>
          [] Head(chars) = Replacement -> <<"EF", "BF", "BD">>
          [] OTHER -> <<Head(chars)>>) \o Encode(Tail(chars))

\* ------------------------------------------------- provider documents
\* A document is null or an object; every field may be absent.
Part(t) == [text |-> t]
Content(ps) == [parts |-> ps]
Candidate(c) == [content |-> c]
Obj(cs) == [isNull |-> FALSE, candidates |-> cs]
NullDoc == [isNull |-> TRUE, candidates |-> None]

TextDoc(t) == Obj(Some(<<Candidate(Some(Content(Some(<<Part(Some(t))>>))))>>))
TwoPartDoc(t, u) ==
  Obj(Some(<<Candidate(Some(Content(Some(<<Part(Some(t)), Part(Some(u))>>))))>>))
TwoCandidateDoc(t, u) ==
  Obj(Some(<<Candidate(Some(Content(Some(<<Part(Some(t))>>)))),
             Candidate(Some(Content(Some(<<Part(Some(u))>>))))>>))
EmptyDoc == Obj(None)
NoCandidateDoc == Obj(Some(<<>>))
NoContentDoc == Obj(Some(<<Candidate(None)>>))
NoPartsDoc == Obj(Some(<<Candidate(Some(Content(None)))>>))
NoTextDoc == Obj(Some(<<Candidate(Some(Content(Some(<<Part(None)>>))))>>))

\* Runs of JSON text.
JHead == "{\"candidates\":[{\"content\":{\"parts\":[{\"text\":\""
JTail == "\"}]}}]}"
JMid == "\"},{\"text\":\""
JNext == "\"}]}},{\"content\":{\"parts\":[{\"text\":\""
JNoContent == "{\"candidates\":[{}]}"
JNoText == "{\"candidates\":[{\"content\":{\"parts\":[{}]}}]}"

\* The JSON texts of the provider universe, each with the document it denotes.
JsonTable ==
  { [text |-> <<JHead, "a", JTail>>, doc |-> TextDoc(<<"a">>)],
    [text |-> <<JHead, "E9", JTail>>, doc |-> TextDoc(<<"E9">>)],
    [text |-> <<JHead, JTail>>, doc |-> TextDoc(<<>>)],
    [text |-> <<JHead, "a", JMid, "E9", JTail>>, doc |-> TwoPartDoc(<<"a">>, <<"E9">>)],
    [text |-> <<JHead, "a", JNext, "E9", JTail>>, doc |-> TwoCandidateDoc(<<"a">>, <<"E9">>)],
    [text |-> <<JNoContent>>, doc |-> NoContentDoc],
    [text |-> <<JNoText>>, doc |-> NoTextDoc],
    [text |-> <<"{}">>, doc |-> EmptyDoc],
    [text |-> <<"null">>, doc |-> NullDoc] }

\* JSON.parse: the document a text denotes, or a SyntaxError.  White space
\* around the text is allowed.
JSONParse(s) ==
  LET t == Trim(s) IN
  IF \E e \in JsonTable : e.text = t
  THEN [ok |-> TRUE, doc |-> (CHOOSE e \in JsonTable : e.text = t).doc]
  ELSE [ok |-> FALSE, doc |-> NullDoc]


\* ------------------------------------------- the streaming translator
DataPrefix == <<"d", "a", "t", "a", ":", " ">>
PrefixLen == 6

\* The extraction as it would be if it took the last part of the candidate.
ExtractText_lastPart(data) ==
  IF data.isNull THEN [threw |-> TRUE, text |-> None]
  ELSE IF IsSome(data.candidates) /\ Len(Get(data.candidates)) >= 1
          /\ IsSome(Get(data.candidates)[1].content)
          /\ IsSome(Get(Get(data.candidates)[1].content).parts)
          /\ Len(Get(Get(Get(data.candidates)[1].content).parts)) >= 1
  THEN LET parts == Get(Get(Get(data.candidates)[1].content).parts) IN
       IF IsSome(parts[Len(parts)].text) /\ Get(parts[Len(parts)].text) # <<>>
       THEN [threw |-> FALSE, text |-> Some(Get(parts[Len(parts)].text))]
       ELSE [threw |-> FALSE, text |-> None]
  ELSE [threw |-> FALSE, text |-> None]

\* geminiChat.ts 200-215: the first text part of the first candidate, when
\* every field on the way is truthy.  A null document makes the property
\* access throw a TypeError.
ExtractText(data) ==
  IF data.isNull THEN [threw |-> TRUE, text |-> None]
  ELSE IF IsSome(data.candidates) /\ Len(Get(data.candidates)) >= 1
          /\ IsSome(Get(data.candidates)[1].content)
  THEN LET content == Get(Get(data.candidates)[1].content) IN
       IF IsSome(content.parts) /\ Len(Get(content.parts)) >= 1
          /\ IsSome(Get(content.parts)[1].text)
          /\ Get(Get(content.parts)[1].text) # <<>>
       THEN [threw |-> FALSE, text |-> Some(Get(Get(content.parts)[1].text))]
       ELSE [threw |-> FALSE, text |-> None]
  ELSE [threw |-> FALSE, text |-> None]

\* geminiChat.ts 196-215, the body of the per-line try: the fragments it
\* enqueues, and whether it threw.  controller.enqueue throws a TypeError
\* when the stream is no longer readable.
TryLine(line, readable) ==
  LET parsed == JSONParse(Slice(line, PrefixLen)) IN
  IF ~parsed.ok THEN [threw |-> TRUE, enq |-> <<>>]
  ELSE LET x == ExtractText(parsed.doc) IN
       IF x.threw THEN [threw |-> TRUE, enq |-> <<>>]
       ELSE IF ~IsSome(x.text) THEN [threw |-> FALSE, enq |-> <<>>]
       ELSE IF readable THEN [threw |-> FALSE, enq |-> <<Encode(Get(x.text))>>]
       ELSE [threw |-> TRUE, enq |-> <<>>]

\* The per-line catch as it would be if it threw the error on.
CatchParseError_rethrow(r) == r

\* geminiChat.ts 216-218: the per-line catch logs and goes on.
CatchParseError(r) == [threw |-> FALSE, enq |-> r.enq]

\* The line filter as it would be if it let every line with text through.
IsDataLine_anyText(line) == Trim(line) # <<>>

\* geminiChat.ts 194: the line filter.
IsDataLine(line) == Trim(line) # <<>> /\ StartsWith(line, DataPrefix)

\* parses counts the calls of JSON.parse.
DoLine(line, readable) ==
  IF IsDataLine(line)
  THEN LET r == CatchParseError(TryLine(line, readable)) IN
       [threw |-> r.threw, enq |-> r.enq, parses |-> 1]
  ELSE [threw |-> FALSE, enq |-> <<>>, parses |-> 0]

\* geminiChat.ts 193-220: the for loop over the lines of one chunk; a throw
\* that leaves a line ends the loop.
RECURSIVE DoLines(_, _)
DoLines(lines, readable) ==
  IF lines = <<>> THEN [threw |-> FALSE, enq |-> <<>>, parses |-> 0]
  ELSE LET r == DoLine(Head(lines), readable) IN
       IF r.threw THEN r
       ELSE LET rest == DoLines(Tail(lines), readable) IN
            [threw |-> rest.threw, enq |-> r.enq \o rest.enq,
             parses |-> r.parses + rest.parses]

\* geminiChat.ts 190-191: the lines of one decoded chunk.
ChunkLines(chars) == Split(chars)


\* ------------------------------------------------------ inbound request
\* temperature is counted in tenths (7 is 0.7, 20 is 2).
BaseRequest ==
  [message |-> Some(<<"h", "i">>), conversation_id |-> None,
   temperature |-> None, max_tokens |-> None, stream |-> None]

Requests ==
  {BaseRequest}
  \cup {[BaseRequest EXCEPT !.message = m] : m \in {None, Some(<<>>)}}
  \cup {[BaseRequest EXCEPT !.message = Some(<<" ">>), !.stream = Some(FALSE)]}
  \cup {[BaseRequest EXCEPT !.temperature = Some(t)] : t \in {0 - 1, 30}}
  \cup {[BaseRequest EXCEPT !.max_tokens = Some(n)] : n \in {0, 8193}}
  \cup {[BaseRequest EXCEPT !.stream = Some(b)] : b \in BOOLEAN}
  \cup {[BaseRequest EXCEPT !.conversation_id = Some("c1")]}
  \cup {[BaseRequest EXCEPT !.conversation_id = Some(id), !.stream = Some(FALSE)] :
          id \in {"", "c1"}}

\* base.ts 26-32: the ChatRequest schema.
TemperatureMin == 0
TemperatureMax == 20
TemperatureDefault == 7
MaxTokensMin == 1
MaxTokensMax == 8192
MaxTokensDefault == 1024

SchemaAccepts(r) ==
  /\ IsSome(r.message) /\ Len(Get(r.message)) >= 1
  /\ IsSome(r.temperature) =>
       (Get(r.temperature) >= TemperatureMin /\ Get(r.temperature) <= TemperatureMax)
  /\ IsSome(r.max_tokens) =>
       (Get(r.max_tokens) >= MaxTokensMin /\ Get(r.max_tokens) <= MaxTokensMax)

\* The parsed body as it would be if stream defaulted to false.
SchemaParse_bufferedDefault(r) ==
  [message |-> Get(r.message),
   conversation_id |-> r.conversation_id,
   temperature |-> IF IsSome(r.temperature) THEN Get(r.temperature) ELSE TemperatureDefault,
   max_tokens |-> IF IsSome(r.max_tokens) THEN Get(r.max_tokens) ELSE MaxTokensDefault,
   stream |-> IF IsSome(r.stream) THEN Get(r.stream) ELSE FALSE]

\* The parsed body: the defaults filled in.
SchemaParse(r) ==
  [message |-> Get(r.message),
   conversation_id |-> r.conversation_id,
   temperature |-> IF IsSome(r.temperature) THEN Get(r.temperature) ELSE TemperatureDefault,
   max_tokens |-> IF IsSome(r.max_tokens) THEN Get(r.max_tokens) ELSE MaxTokensDefault,
   stream |-> IF IsSome(r.stream) THEN Get(r.stream) ELSE TRUE]

\* The validation as it would be if only a missing message were refused.
GetValidatedData_lenient(r) ==
  IF IsSome(r.message) THEN [threw |-> FALSE, body |-> SchemaParse(r)]
  ELSE [threw |-> TRUE, body |-> SchemaParse(BaseRequest)]

\* geminiChat.ts 67: getValidatedData parses the body with the schema and
\* throws what the schema throws.
GetValidatedData(r) ==
  IF SchemaAccepts(r) THEN [threw |-> FALSE, body |-> SchemaParse(r)]
  ELSE [threw |-> TRUE, body |-> SchemaParse(BaseRequest)]

\* c.env.GEMINI_API_KEY: unset, set to the empty string, or set.
ApiKeys == {None, Some(""), Some("k")}
Truthy(o) == IsSome(o) /\ Get(o) # ""

\* geminiChat.ts 278-280: conv_<time>_<random>.
GeneratedIds == {"conv_1_x", "conv_2_y"}

\* ------------------------------------------------------------ responses
NoResponse ==
  [kind |-> "none", status |-> 0, success |-> None, error |-> None, errors |-> FALSE,
   conversation_id |-> None, message |-> None, usage |-> None, headers |-> None]

\* c.json({success: false, error}, status)
JsonError(err, status) ==
  [NoResponse EXCEPT !.kind = "json", !.status = status, !.success = Some(FALSE),
                     !.error = Some(err)]

\* c.json({success: true, conversation_id, message, usage}), status 200
JsonOk(id, message, usage) ==
  [NoResponse EXCEPT !.kind = "json", !.status = 200, !.success = Some(TRUE),
                     !.conversation_id = Some(id), !.message = Some(message),
                     !.usage = usage]

\* The headers as they would be if the stream were announced as JSON.
StreamHeaders_json(id) ==
  [contentType |-> "application/json", cacheControl |-> "no-cache",
   connection |-> "keep-alive", xConversationId |-> id]

\* new Response(stream, {headers}), status 200
StreamHeaders(id) ==
  [contentType |-> "text/plain; charset=utf-8", cacheControl |-> "no-cache",
   connection |-> "keep-alive", xConversationId |-> id]

StreamResponse(id) ==
  [NoResponse EXCEPT !.kind = "stream", !.status = 200, !.headers = Some(StreamHeaders(id))]

\* app.onError for an exception that is no ApiException:
\* {success: false, errors: [{code: 7000, ...}]}, status 500
OnErrorResponse ==
  [NoResponse EXCEPT !.kind = "json", !.status = 500, !.success = Some(FALSE),
                     !.errors = TRUE]

ErrInternal == "internal error while handling the request"
ErrNoKey == "Gemini API key not configured"
ErrNoReader == "cannot read the streaming response"
ErrGenerate == "generating content failed"
ErrProvider(status) ==
  CASE status = 429 -> "Gemini API request failed: 429"
    [] status = 503 -> "Gemini API request failed: 503"
    [] OTHER -> "Gemini API request failed"


\* ---------------------------------------------------- provider universe
Line(json) == DataPrefix \o json

LineA == Line(<<JHead, "a", JTail>>)
LineE == Line(<<JHead, LeadByte, ContByte, JTail>>)
LineBad == Line(<<JHead, "a">>)
CoreLines == {LineA, LineE}

\* Lines that carry no fragment of their own, or more than the first part.
OtherLines ==
  { <<>>, <<":", " ", "a">>,
    Line(<<JHead, "a", JMid, LeadByte, ContByte, JTail>>),
    Line(<<JHead, "a", JNext, LeadByte, ContByte, JTail>>),
    Line(<<JNoContent>>), Line(<<JNoText>>),
    Line(<<JHead, JTail>>), Line(<<"{}">>), Line(<<"null">>) }

RECURSIVE Wire(_)
Wire(lines) ==
  IF lines = <<>> THEN <<>> ELSE Head(lines) \o <<"\n">> \o Wire(Tail(lines))

\* The bodies of a streamGenerateContent response: every line ends in "\n".
Streams ==
  {Wire(ls) : ls \in UNION {[1..k -> CoreLines] : k \in 0..MaxLines}}
  \cup {Wire(<<x>>) : x \in OtherLines \cup {LineBad}}
  \cup {Wire(<<x, LineE>>) : x \in OtherLines}
  \cup {Wire(<<LineA, LineBad, LineE>>)}

\* The chunks of an SDK stream, by what chunk.text() returns.
SdkTexts == {<<>>, <<"a">>, <<"E9">>}
SdkStreams == UNION {[1..k -> SdkTexts] : k \in 0..MaxSdkChunks}

\* The bodies of a generateContent response, as response.json() yields them.
Usage(p, c, t) ==
  [promptTokenCount |-> p, candidatesTokenCount |-> c, totalTokenCount |-> t]

Documents ==
  { [doc |-> TextDoc(<<"a">>), usageMetadata |-> Some(Usage(Some(1), Some(1), Some(2)))],
    [doc |-> TextDoc(<<"a">>), usageMetadata |-> None],
    [doc |-> TwoPartDoc(<<"a">>, <<"E9">>), usageMetadata |-> Some(Usage(Some(0), Some(0), Some(0)))],
    [doc |-> EmptyDoc, usageMetadata |-> Some(Usage(Some(3), None, Some(3)))],
    [doc |-> EmptyDoc, usageMetadata |-> None],
    [doc |-> NoCandidateDoc, usageMetadata |-> None],
    [doc |-> NoContentDoc, usageMetadata |-> None],
    [doc |-> NoPartsDoc, usageMetadata |-> None],
    [doc |-> NoTextDoc, usageMetadata |-> None],
    [doc |-> TextDoc(<<>>), usageMetadata |-> None],
    [doc |-> TwoCandidateDoc(<<"a">>, <<"E9">>), usageMetadata |-> None],
    [doc |-> NullDoc, usageMetadata |-> None] }

\* Provider statuses that are not ok.
FailureStatuses == {429, 503}

\* ------------------------------------------------- ReadableStream controller
\* controller.error(e): nothing when the stream is not readable.
ControllerError(st) == IF st = "readable" THEN "errored" ELSE st

\* new ReadableStream({start}) names no queuing strategy: the queue counts as
\* full from one chunk on.
HighWaterMark == 1

\* controller.error(e) drops the queue of a readable stream.
QueueAfterError(st, q) == IF st = "readable" THEN 0 ELSE q

\* controller.close(): a TypeError when the stream is not readable.
ControllerClose(st) ==
  IF st = "readable" THEN [threw |-> FALSE, state |-> "closed"]
  ELSE [threw |-> TRUE, state |-> st]


\* ------------------------------------------------ the buffered translator
OrZero(o) == IF IsSome(o) /\ Get(o) # 0 THEN Get(o) ELSE 0

\* The usage as it would be if an absent block were reported as zeros.
UsageOf_zeros(um) ==
  IF IsSome(um)
  THEN Some([prompt_tokens |-> OrZero(Get(um).promptTokenCount),
             completion_tokens |-> OrZero(Get(um).candidatesTokenCount),
             total_tokens |-> OrZero(Get(um).totalTokenCount)])
  ELSE Some([prompt_tokens |-> 0, completion_tokens |-> 0, total_tokens |-> 0])

\* geminiChat.ts 259-265 and 500-506
UsageOf(um) ==
  IF IsSome(um)
  THEN Some([prompt_tokens |-> OrZero(Get(um).promptTokenCount),
             completion_tokens |-> OrZero(Get(um).candidatesTokenCount),
             total_tokens |-> OrZero(Get(um).totalTokenCount)])
  ELSE None

\* The message as it would be if it were taken from the last part.
MessageOf_lastPart(data) ==
  IF IsSome(data.candidates) /\ Len(Get(data.candidates)) >= 1
     /\ IsSome(Get(data.candidates)[1].content)
     /\ IsSome(Get(Get(data.candidates)[1].content).parts)
     /\ Len(Get(Get(Get(data.candidates)[1].content).parts)) >= 1
  THEN LET parts == Get(Get(Get(data.candidates)[1].content).parts) IN
       IF IsSome(parts[Len(parts)].text) THEN Get(parts[Len(parts)].text) ELSE <<>>
  ELSE <<>>

\* geminiChat.ts 250-256
MessageOf(data) ==
  LET x == ExtractText(data) IN IF IsSome(x.text) THEN Get(x.text) ELSE <<>>

\* geminiChat.ts 242-273: handleNormalResponse on the document response.json()
\* gave; a null document throws.
HandleNormalResponse(d, id) ==
  IF ExtractText(d.doc).threw THEN [threw |-> TRUE, resp |-> NoResponse]
  ELSE [threw |-> FALSE, resp |-> JsonOk(id, MessageOf(d.doc), UsageOf(d.usageMetadata))]

\* conversation_id || this.generateConversationId()
ResolveId(given, fresh) == IF Truthy(given) THEN Get(given) ELSE fresh

\* ----------------------------------------------------------------- state
VARIABLES
  variant,          \* "fetch" or "sdk": which GeminiChatEndpoint is deployed
  req,              \* the inbound request body
  apiKey,           \* c.env.GEMINI_API_KEY
  pc,               \* "idle", "responded", "calling", "streaming", "done"
  resp,             \* the response handle returned
  escaped,          \* an exception left handle
  providerCalls,    \* provider calls made for this request
  providerFailed,   \* the provider call failed
  providerStatus,   \* the status the provider reported, when it reported one
  translator,       \* "none", "stream" or "buffered": the translator that ran
  document,         \* the document the provider answered a buffered call with
  called,           \* the provider method called: "none" or ApiMethod
  provider,         \* the bytes of the provider's stream body
  pos,              \* how many of them the reader has delivered
  sdkRest,          \* the chunks the SDK stream has still to yield
  pending,          \* the TextDecoder's kept lead byte
  state,            \* the caller-facing stream: "none", "readable", "closed", "errored"
  emitted,          \* the fragments enqueued on it, in order
  cancelled,        \* the caller cancelled the stream
  readAfterCancel,  \* an upstream read was issued after the cancel
  readThrew,        \* an upstream read threw
  sawDone,          \* an upstream read returned done
  cutLine,          \* an upstream read ended inside a line
  parseAttempts,    \* how many times the loop has called JSON.parse
  queued            \* how many fragments wait in the stream's queue

vars ==
  <<variant, req, apiKey, pc, resp, escaped, providerCalls, providerFailed,
    providerStatus, translator, document, called,
                 provider, pos, sdkRest, pending, state, emitted,
    cancelled, readAfterCancel, readThrew, sawDone, cutLine, parseAttempts, queued>>

inputVars == <<variant, req, apiKey>>
streamVars == <<provider, pos, sdkRest, pending, state, emitted>>
flagVars == <<cancelled, readAfterCancel, readThrew, sawDone, cutLine, parseAttempts>>

Init ==
  /\ variant \in {"fetch", "sdk"}
  /\ req \in Requests
  /\ apiKey \in ApiKeys
  /\ pc = "idle"
  /\ resp = NoResponse
  /\ escaped = FALSE
  /\ providerCalls = 0
  /\ providerFailed = FALSE
  /\ providerStatus = None
  /\ translator = "none"
  /\ document = None
  /\ called = "none"
  /\ provider = <<>>
  /\ pos = 0
  /\ sdkRest = <<>>
  /\ pending = <<>>
  /\ state = "none"
  /\ emitted = <<>>
  /\ cancelled = FALSE
  /\ readAfterCancel = FALSE
  /\ readThrew = FALSE
  /\ sawDone = FALSE
  /\ cutLine = FALSE
  /\ parseAttempts = 0
  /\ queued = 0

\* handle returns a JSON response and nothing runs after it; doc is the
\* document the provider gave, if it gave one.
RespondWith(r, calls, failed, status, tr, doc) ==
  /\ pc' = "responded"
  /\ resp' = r
  /\ providerCalls' = calls
  /\ providerFailed' = failed
  /\ providerStatus' = status
  /\ translator' = tr
  /\ document' = doc
  /\ UNCHANGED <<escaped, streamVars>>

Respond(r, calls, failed, status, tr) == RespondWith(r, calls, failed, status, tr, None)

\* handle returns new Response(stream): the start callback has run up to its
\* first await.
BeginStream(id, body, next) ==
  /\ pc' = next
  /\ resp' = StreamResponse(id)
  /\ providerCalls' = providerCalls + 1
  /\ providerFailed' = FALSE
  /\ providerStatus' = None
  /\ translator' = "stream"
  /\ provider' = body
  /\ UNCHANGED document
  /\ state' = "readable"
  /\ UNCHANGED <<escaped, pos, sdkRest, pending, emitted>>


\* An exception leaves handle: app.onError answers.
EscapeWith(calls, status, tr, doc) ==
  /\ pc' = "responded"
  /\ resp' = OnErrorResponse
  /\ escaped' = TRUE
  /\ providerCalls' = calls
  /\ providerFailed' = FALSE
  /\ providerStatus' = status
  /\ translator' = tr
  /\ document' = doc
  /\ UNCHANGED streamVars

Escape(calls, status, tr) == EscapeWith(calls, status, tr, None)

\* The key test as it would be if it tested only for an unset key.
KeyMissing_unsetOnly(key) == ~IsSome(key)

\* geminiChat.ts 73 and 354: if (!apiKey)
KeyMissing(key) == ~Truthy(key)

\* geminiChat.ts 111: if (!response.ok)
NotOk(status) == status < 200 \/ status > 299

\* ------------------------------------------------- handle, written with fetch
\* geminiChat.ts 153-237: handleStreamResponse
HandleStreamResponse(id) ==
  \/ \* response.body is null: no reader
     Respond(JsonError(ErrNoReader, 500), 1, FALSE, Some(200), "stream")
  \/ \E body \in Streams :
       /\ BeginStream(id, body, "streaming")

\* geminiChat.ts 132-136 and 242-273: the promise of handleNormalResponse is
\* returned without await, so what it throws is not caught by handle's catch.
ReturnNormalResponse(id) ==
  \/ \* response.json() throws: the body is no JSON
     Escape(1, Some(200), "buffered")
  \/ \E d \in Documents :
       LET r == HandleNormalResponse(d, id) IN
       IF r.threw THEN EscapeWith(1, Some(200), "buffered", Some(d))
       ELSE RespondWith(r.resp, 1, FALSE, Some(200), "buffered", Some(d))

\* geminiChat.ts 97-99: the method in the URL the fetch is made to.
ApiMethod(stream) == IF stream THEN "streamGenerateContent" ELSE "generateContent"

\* geminiChat.ts 97-137: the fetch and what follows it
CallProvider(body) ==
  /\ called' = ApiMethod(body.stream)
  /\ \/ \* fetch throws: caught at 138
        Respond(JsonError(ErrInternal, 500), 1, TRUE, None, "none")
     \/ \E status \in FailureStatuses :
          /\ NotOk(status)
          /\ Respond(JsonError(ErrProvider(status), status), 1, TRUE, Some(status), "none")
     \/ \E fresh \in GeneratedIds :
          /\ ~NotOk(200)
          /\ IF body.stream
             THEN HandleStreamResponse(ResolveId(body.conversation_id, fresh))
             ELSE ReturnNormalResponse(ResolveId(body.conversation_id, fresh))

\* geminiChat.ts 64-148
HandleFetch ==
  /\ pc = "idle"
  /\ variant = "fetch"
  /\ UNCHANGED <<inputVars, flagVars, queued>>
  /\ LET v == GetValidatedData(req) IN
     IF v.threw
     THEN Respond(JsonError(ErrInternal, 500), 0, FALSE, None, "none") /\ UNCHANGED called
     ELSE IF KeyMissing(apiKey)
     THEN Respond(JsonError(ErrNoKey, 500), 0, FALSE, None, "none") /\ UNCHANGED called
     ELSE CallProvider(v.body)

\* ---------------------------------------------- the start callback (fetch)
\* geminiChat.ts 182-220: a read delivers n more bytes; they are decoded,
\* split and translated, and the loop issues the next read.
ReadChunk ==
  /\ pc = "streaming"
  /\ variant = "fetch"
  /\ pos < Len(provider)
  /\ \E n \in 1..(Len(provider) - pos) :
       LET d == Decode(SubSeq(provider, pos + 1, pos + n), pending)
           r == DoLines(ChunkLines(d.chars), state = "readable")
       IN /\ pos' = pos + n
          /\ cutLine' = (cutLine \/ provider[pos + n] # "\n")
          /\ pending' = d.pending
          /\ emitted' = emitted \o r.enq
          /\ parseAttempts' = parseAttempts + r.parses
          /\ IF r.threw
             THEN /\ state' = ControllerError(state)
                  /\ queued' = QueueAfterError(state, queued)
                  /\ pc' = "done"
                  /\ UNCHANGED readAfterCancel
             ELSE /\ state' = state
                  /\ queued' = queued + Len(r.enq)
                  /\ pc' = "streaming"
                  /\ readAfterCancel' = (readAfterCancel \/ cancelled)
  /\ UNCHANGED <<inputVars, resp, escaped, providerCalls, providerFailed,
                 providerStatus, translator, document, called,
                 provider, sdkRest, cancelled,
                 readThrew, sawDone>>

\* The end of data as it would be if the loop reported it as a failure.
OnDone_error(st) == ControllerError(st)

\* The end of data as it would be if the loop left without closing.
OnDone_noClose(st) == st

\* What the loop does when a read returns done (geminiChat.ts 184-187); a
\* close that throws is caught at 222.
OnDone(st) ==
  LET c == ControllerClose(st) IN
  IF c.threw THEN ControllerError(c.state) ELSE c.state

\* The outer catch as it would be if it closed the stream.
OnReadError_close(st) == IF st = "readable" THEN "closed" ELSE st

\* What the loop does when a read throws (geminiChat.ts 222-225).
OnReadError(st) == ControllerError(st)

ReadDone ==
  /\ pc = "streaming"
  /\ variant = "fetch"
  /\ pos = Len(provider)
  /\ state' = OnDone(state)
  /\ sawDone' = TRUE
  /\ pc' = "done"
  /\ UNCHANGED <<inputVars, resp, escaped, providerCalls, providerFailed,
                 providerStatus, translator, document, called,
                 provider, pos, sdkRest, pending,
                 emitted, cancelled, readAfterCancel, readThrew, cutLine, parseAttempts, queued>>

ReadThrow ==
  /\ pc = "streaming"
  /\ variant = "fetch"
  /\ state' = OnReadError(state)
  /\ queued' = QueueAfterError(state, queued)
  /\ readThrew' = TRUE
  /\ pc' = "done"
  /\ UNCHANGED <<inputVars, resp, escaped, providerCalls, providerFailed,
                 providerStatus, translator, document, called,
                 provider, pos, sdkRest, pending,
                 emitted, cancelled, readAfterCancel, sawDone, cutLine, parseAttempts>>

\* The caller goes away: the runtime cancels the stream.  No cancel callback
\* is given to the ReadableStream, so only the stream's state changes.
Cancel ==
  /\ pc \in {"calling", "streaming"}
  /\ state = "readable"
  /\ state' = "closed"
  /\ queued' = 0
  /\ cancelled' = TRUE
  /\ UNCHANGED <<inputVars, pc, resp, escaped, providerCalls, providerFailed,
                 providerStatus, translator, document, called,
                 provider, pos, sdkRest, pending,
                 emitted, readAfterCancel, readThrew, sawDone, cutLine, parseAttempts>>

\* ------------------------------------------------ handle, written with the SDK
UsageMetadata == {d.usageMetadata : d \in Documents}

\* geminiChat.ts 482-524: handleNormalResponseWithSDK
HandleNormalResponseWithSDK(id) ==
  /\ called' = "generateContent"
  /\ \/ \* model.generateContent throws: caught at 514
        Respond(JsonError(ErrGenerate, 500), 1, TRUE, None, "none")
     \/ \* response.text() throws: caught at 514
        Respond(JsonError(ErrGenerate, 500), 1, FALSE, None, "buffered")
     \/ \E text \in SdkTexts, um \in UsageMetadata :
          RespondWith(JsonOk(id, text, UsageOf(um)), 1, FALSE, None, "buffered",
                      Some([doc |-> TextDoc(text), usageMetadata |-> um]))

\* geminiChat.ts 418-477: handleStreamResponseWithSDK.  The start callback
\* calls model.generateContentStream and suspends; the Response is returned.
HandleStreamResponseWithSDK(id) ==
  /\ called' = "streamGenerateContent"
  /\ BeginStream(id, <<>>, "calling")

\* geminiChat.ts 345-413
HandleSdk ==
  /\ pc = "idle"
  /\ variant = "sdk"
  /\ UNCHANGED <<inputVars, flagVars, queued>>
  /\ LET v == GetValidatedData(req) IN
     IF v.threw
     THEN Respond(JsonError(ErrInternal, 500), 0, FALSE, None, "none") /\ UNCHANGED called
     ELSE IF KeyMissing(apiKey)
     THEN Respond(JsonError(ErrNoKey, 500), 0, FALSE, None, "none") /\ UNCHANGED called
     ELSE \E fresh \in GeneratedIds :
            IF v.body.stream
            THEN HandleStreamResponseWithSDK(ResolveId(v.body.conversation_id, fresh))
            ELSE HandleNormalResponseWithSDK(ResolveId(v.body.conversation_id, fresh))

\* ------------------------------------------------ the start callback (SDK)
\* geminiChat.ts 437-443: generateContentStream resolves and the for await
\* asks the stream for its first chunk.
SdkCallResolve ==
  /\ pc = "calling"
  /\ \E chunks \in SdkStreams : sdkRest' = chunks
  /\ pc' = "streaming"
  /\ readAfterCancel' = (readAfterCancel \/ cancelled)
  /\ UNCHANGED <<inputVars, resp, escaped, providerCalls, providerFailed,
                 providerStatus, translator, document, called,
                 provider, pos, pending, state,
                 emitted, cancelled, readThrew, sawDone, cutLine, parseAttempts, queued>>

\* geminiChat.ts 437 and 452-455: generateContentStream rejects.
SdkCallThrow ==
  /\ pc = "calling"
  /\ providerFailed' = TRUE
  /\ state' = ControllerError(state)
  /\ queued' = QueueAfterError(state, queued)
  /\ pc' = "done"
  /\ UNCHANGED <<inputVars, resp, escaped, providerCalls, providerStatus,
                 translator, document, called,
                 provider, pos, sdkRest, pending, emitted, flagVars>>

\* geminiChat.ts 443-449: one chunk of the stream.  An enqueue that throws
\* is caught at 452.
SdkChunk ==
  /\ pc = "streaming"
  /\ variant = "sdk"
  /\ sdkRest # <<>>
  /\ sdkRest' = Tail(sdkRest)
  /\ LET text == Head(sdkRest) IN
     IF text # <<>> /\ state # "readable"
     THEN /\ state' = ControllerError(state)
          /\ pc' = "done"
          /\ UNCHANGED <<emitted, readAfterCancel, queued>>
     ELSE /\ emitted' = (IF text # <<>> THEN Append(emitted, Encode(text)) ELSE emitted)
          /\ queued' = (IF text # <<>> THEN queued + 1 ELSE queued)
          /\ pc' = "streaming"
          /\ readAfterCancel' = (readAfterCancel \/ cancelled)
          /\ UNCHANGED state
  /\ UNCHANGED <<inputVars, resp, escaped, providerCalls, providerFailed,
                 providerStatus, translator, document, called,
                 provider, pos, pending, cancelled,
                 readThrew, sawDone, cutLine, parseAttempts>>

\* geminiChat.ts 451: the stream is exhausted.
SdkDone ==
  /\ pc = "streaming"
  /\ variant = "sdk"
  /\ sdkRest = <<>>
  /\ state' = OnDone(state)
  /\ sawDone' = TRUE
  /\ pc' = "done"
  /\ UNCHANGED <<inputVars, resp, escaped, providerCalls, providerFailed,
                 providerStatus, translator, document, called,
                 provider, pos, sdkRest, pending,
                 emitted, cancelled, readAfterCancel, readThrew, cutLine, parseAttempts, queued>>

\* geminiChat.ts 443 and 452-455: the iteration throws.
SdkThrow ==
  /\ pc = "streaming"
  /\ variant = "sdk"
  /\ state' = OnReadError(state)
  /\ queued' = QueueAfterError(state, queued)
  /\ readThrew' = TRUE
  /\ pc' = "done"
  /\ UNCHANGED <<inputVars, resp, escaped, providerCalls, providerFailed,
                 providerStatus, translator, document, called,
                 provider, pos, sdkRest, pending,
                 emitted, cancelled, readAfterCancel, sawDone, cutLine, parseAttempts>>

\* The caller takes the next fragment off the stream.  A stream closed by
\* the loop still hands out what is queued.
Consume ==
  /\ state \in {"readable", "closed"}
  /\ queued > 0
  /\ queued' = queued - 1
  /\ UNCHANGED <<inputVars, pc, resp, escaped, providerCalls, providerFailed,
                 providerStatus, translator, document, called, streamVars,
                 cancelled, readAfterCancel, readThrew, sawDone, cutLine,
                 parseAttempts>>

Next ==
  \/ HandleFetch \/ ReadChunk \/ ReadDone \/ ReadThrow
  \/ HandleSdk \/ SdkCallResolve \/ SdkCallThrow \/ SdkChunk \/ SdkDone \/ SdkThrow
  \/ Cancel \/ Consume

Spec == Init /\ [][Next]_vars

\* A pending upstream read settles, with bytes, with the end of data or with
\* an error, and the runtime then runs the loop's continuation; likewise the
\* SDK call and the SDK stream's next chunk.
FairSpec ==
  /\ Spec
  /\ WF_vars(ReadThrow \/ ReadDone \/ ReadChunk)
  /\ WF_vars(SdkCallThrow \/ SdkCallResolve)
  /\ WF_vars(SdkThrow \/ SdkDone \/ SdkChunk)


\* ================================================================ properties
\* The streaming loop of the fetch variant has ended on end of data with the
\* caller still there.
FetchStreamComplete ==
  variant = "fetch" /\ pc = "done" /\ sawDone /\ ~cancelled

\* Every text field of a document, in document order.
RECURSIVE PartTexts(_)
PartTexts(ps) ==
  IF ps = <<>> THEN <<>>
  ELSE (IF IsSome(Head(ps).text) THEN Get(Head(ps).text) ELSE <<>>) \o PartTexts(Tail(ps))

RECURSIVE CandidateTexts(_)
CandidateTexts(cs) ==
  IF cs = <<>> THEN <<>>
  ELSE (IF IsSome(Head(cs).content) /\ IsSome(Get(Head(cs).content).parts)
        THEN PartTexts(Get(Get(Head(cs).content).parts)) ELSE <<>>)
       \o CandidateTexts(Tail(cs))

DocTexts(d) ==
  IF d.isNull \/ ~IsSome(d.candidates) THEN <<>> ELSE CandidateTexts(Get(d.candidates))

\* The text fields of the lines of a stream that begin with the prefix and parse.
RECURSIVE LineTexts(_)
LineTexts(lines) ==
  IF lines = <<>> THEN <<>>
  ELSE (IF StartsWith(Head(lines), DataPrefix)
           /\ JSONParse(Slice(Head(lines), PrefixLen)).ok
        THEN DocTexts(JSONParse(Slice(Head(lines), PrefixLen)).doc) ELSE <<>>)
       \o LineTexts(Tail(lines))

StreamTexts(bytes) == LineTexts(Split(Decode(bytes, <<>>).chars))

\* C1: when a streaming response has completed, the concatenation of the
\* enqueued fragments is the concatenation, in arrival order, of every text
\* field of every data line of the provider stream that parses.
C1_ConcatenationOfTexts ==
  FetchStreamComplete => Flatten(emitted) = Encode(StreamTexts(provider))

\* The fragments the loop enqueues when the whole stream arrives in one read.
OneRead(bytes) == DoLines(ChunkLines(Decode(bytes, <<>>).chars), TRUE).enq

\* C2: the emitted fragments do not depend on how the provider bytes are cut
\* into reads: however they were cut, the fragments are those of a single read.
C2_ChunkingIndependent ==
  FetchStreamComplete => emitted = OneRead(provider)

\* The decoded lines of the bytes delivered so far.
DeliveredLines ==
  LET decoded == Decode(SubSeq(provider, 1, pos), <<>>) IN Split(decoded.chars)

Malformed(line) ==
  StartsWith(line, DataPrefix) /\ ~JSONParse(Slice(line, PrefixLen)).ok

\* The fragment of one well-formed line, if it carries one.
LineFragment(line) ==
  IF ~StartsWith(line, DataPrefix) THEN <<>>
  ELSE LET parsed == JSONParse(Slice(line, PrefixLen)) IN
       IF ~parsed.ok THEN <<>>
       ELSE LET x == ExtractText(parsed.doc) IN
            IF x.threw \/ ~IsSome(x.text) THEN <<>> ELSE <<Encode(Get(x.text))>>

\* The fragments of the lines that are well formed, in order.
WellFormedFragments(lines) ==
  Flatten([i \in 1..Len(lines) |-> LineFragment(lines[i])])

\* C3: when the lines delivered so far, each delivered whole, hold a data
\* line that fails JSON parsing, the loop has ended only on end of data or on
\* a read that threw, the stream is errored only by such a read and closed
\* only by end of data or the caller, and while the caller is there the
\* fragments enqueued are those of the well-formed lines, in order.
C3_MalformedLineSkipped ==
  LET lines == DeliveredLines IN
  (variant = "fetch" /\ pc \in {"streaming", "done"} /\ ~cutLine
     /\ \E i \in 1..Len(lines) : Malformed(lines[i]))
    => /\ pc = "done" => (sawDone \/ readThrew)
       /\ state = "errored" => readThrew
       /\ state = "closed" => (sawDone \/ cancelled)
       /\ ~cancelled => emitted = WellFormedFragments(lines)

C3_Witness ==
  /\ FetchStreamComplete
  /\ ~cutLine
  /\ provider = Wire(<<LineA, LineBad, LineE>>)
  /\ state = "closed"
  /\ emitted = <<Encode(<<"a">>), Encode(<<"E9">>)>>

\* C4: once an upstream read has thrown, the loop has ended without closing
\* the stream: the stream is errored, unless the caller had cancelled it.
C4_ReadErrorErrorsStream ==
  readThrew => (pc = "done" /\ ~sawDone /\ (state = "errored" \/ cancelled))

C4_Witness ==
  /\ readThrew
  /\ state = "errored"
  /\ emitted # <<>>
  /\ pos < Len(provider)

\* C5: the step on which the upstream signals end of data leaves the stream
\* closed, not errored, ends the loop, and keeps every fragment enqueued
\* before it.
C5_DoneClosesCleanly ==
  [][ (sawDone' /\ ~sawDone)
      => (state' = "closed" /\ pc' = "done" /\ ~readThrew' /\ emitted' = emitted)
    ]_vars

C5_Witness ==
  /\ sawDone
  /\ ~cancelled
  /\ state = "closed"
  /\ Len(emitted) >= 2

\* C6: after the caller has cancelled the stream no upstream read is issued.
C6_NoReadAfterCancel == ~readAfterCancel

OnlyWhiteSpace(m) == Trim(m) = <<>>

\* C7: a request whose message is absent, empty or only white space is
\* answered with status 400 and causes no provider call.
C7_BlankMessageRejected ==
  (pc # "idle" /\ (~IsSome(req.message) \/ OnlyWhiteSpace(Get(req.message))))
    => (resp.status = 400 /\ providerCalls = 0)

\* C8: a request whose temperature is outside [0, 2] or whose max_tokens is
\* outside [1, 8192] is answered with status 400 and causes no provider call.
C8_OutOfRangeRejected ==
  (pc # "idle"
     /\ \/ (IsSome(req.temperature)
              /\ (Get(req.temperature) < 0 \/ Get(req.temperature) > 20))
        \/ (IsSome(req.max_tokens)
              /\ (Get(req.max_tokens) < 1 \/ Get(req.max_tokens) > 8192)))
    => (resp.status = 400 /\ providerCalls = 0)

\* C9: a valid request handled without a provider credential is answered
\* with status 500 and {success: false, error: <non-empty>}, and no provider
\* call is made.
C9_MissingCredential ==
  (pc # "idle" /\ SchemaAccepts(req) /\ ~Truthy(apiKey))
    => /\ pc = "responded"
       /\ resp.kind = "json"
       /\ resp.status = 500
       /\ resp.success = Some(FALSE)
       /\ IsSome(resp.error) /\ Get(resp.error) # ""
       /\ providerCalls = 0
       /\ translator = "none"

C9_Witness ==
  /\ pc = "responded"
  /\ SchemaAccepts(req)
  /\ apiKey = Some("")
  /\ resp.status = 500
  /\ resp.error = Some(ErrNoKey)

\* C10: when the provider call has failed, no translator has run and no 200
\* response was begun: the response is {success: false, error} with the
\* provider's status when known, else 500.
C10_ProviderFailureIntercepted ==
  providerFailed
    => /\ translator = "none"
       /\ resp.kind = "json"
       /\ resp.success = Some(FALSE)
       /\ IsSome(resp.error)
       /\ resp.status = (IF IsSome(providerStatus) THEN Get(providerStatus) ELSE 500)

\* The identifiers a response to the request may carry: the one supplied, or
\* a generated one.
ResolvedIds ==
  IF IsSome(req.conversation_id) /\ Get(req.conversation_id) # ""
  THEN {Get(req.conversation_id)} ELSE GeneratedIds

\* The framing metadata of a streaming response.
Framed(r) ==
  /\ r.kind = "stream"
  /\ IsSome(r.headers)
  /\ Get(r.headers).contentType = "text/plain; charset=utf-8"
  /\ Get(r.headers).cacheControl = "no-cache"
  /\ Get(r.headers).connection = "keep-alive"
  /\ Get(r.headers).xConversationId \in ResolvedIds

\* C11: in streaming mode the framing metadata (Content-Type, Cache-Control,
\* Connection and X-Conversation-ID with the resolved identifier) is in place
\* from the step that creates the stream, so before any fragment is
\* enqueued, and no later step changes the response handle.
C11_FramingFixedFirst ==
  [][ /\ state' # "none" => Framed(resp')
      /\ state # "none" => resp' = resp
      /\ emitted' # <<>> => state # "none"
    ]_vars

C11_Witness ==
  /\ req.conversation_id = Some("c1")
  /\ Len(emitted) >= 1
  /\ sawDone
  /\ Framed(resp)
  /\ Get(resp.headers).xConversationId = "c1"

\* The first text part of the first candidate of a document that is an
\* object, and the empty text when a field on the way to it is absent.
FirstTextPart(doc) ==
  IF ~IsSome(doc.candidates) \/ Get(doc.candidates) = <<>> THEN <<>>
  ELSE LET c == Get(doc.candidates)[1] IN
       IF ~IsSome(c.content) \/ ~IsSome(Get(c.content).parts)
          \/ Get(Get(c.content).parts) = <<>>
       THEN <<>>
       ELSE LET p == Get(Get(c.content).parts)[1] IN
            IF IsSome(p.text) THEN Get(p.text) ELSE <<>>

\* C12: in buffered mode of the fetch variant, whatever JSON object the
\* provider answered with, the response is a success whose message is the
\* first text part of the first candidate, and the empty string when
\* candidates, content, parts or text are absent; no such absence is an error.
C12_MessageIsFirstText ==
  (variant = "fetch" /\ pc = "responded" /\ IsSome(document)
     /\ ~Get(document).doc.isNull)
    => /\ ~escaped
       /\ resp.kind = "json"
       /\ resp.status = 200
       /\ resp.success = Some(TRUE)
       /\ resp.message = Some(FirstTextPart(Get(document).doc))

C12_Witness ==
  /\ variant = "fetch"
  /\ pc = "responded"
  /\ document = Some([doc |-> NoPartsDoc, usageMetadata |-> None])
  /\ resp.status = 200
  /\ resp.message = Some(<<>>)

\* A counter of the response's usage carries the provider's counter, when the
\* provider gave one.
SameCount(mine, theirs) == IsSome(theirs) => mine = Get(theirs)

\* C13: in buffered mode a success response carries usage exactly when the
\* provider's document carries a usage-metadata block; its prompt_tokens,
\* completion_tokens and total_tokens are then the block's promptTokenCount,
\* candidatesTokenCount and totalTokenCount, and without a block there is no
\* usage at all, not one of zeros.
C13_UsageMirrorsMetadata ==
  (pc = "responded" /\ IsSome(document) /\ resp.status = 200)
    => LET um == Get(document).usageMetadata IN
       /\ IsSome(resp.usage) <=> IsSome(um)
       /\ IsSome(um) =>
            /\ SameCount(Get(resp.usage).prompt_tokens, Get(um).promptTokenCount)
            /\ SameCount(Get(resp.usage).completion_tokens, Get(um).candidatesTokenCount)
            /\ SameCount(Get(resp.usage).total_tokens, Get(um).totalTokenCount)

C13_Witness ==
  /\ pc = "responded"
  /\ IsSome(document)
  /\ Get(document).usageMetadata = Some(Usage(Some(1), Some(1), Some(2)))
  /\ resp.usage = Some([prompt_tokens |-> 1, completion_tokens |-> 1, total_tokens |-> 2])

\* C14: a success response carries the conversation identifier the request
\* supplied, whatever string it is (in the X-Conversation-ID header when
\* streaming, in the conversation_id field when buffered), and a generated,
\* non-empty one when the request supplied none.
C14_ConversationIdEchoed ==
  (pc # "idle" /\ resp.status = 200)
    => LET id == IF resp.kind = "stream" THEN Get(resp.headers).xConversationId
                 ELSE Get(resp.conversation_id)
       IN IF IsSome(req.conversation_id) THEN id = Get(req.conversation_id)
          ELSE id \in GeneratedIds /\ id # ""

\* C15: a request causes at most one provider call: none when the schema
\* refuses it or the credential is missing, exactly one otherwise, and a call
\* that failed is not made again.
C15_AtMostOneProviderCall ==
  /\ providerCalls <= 1
  /\ pc = "idle" => providerCalls = 0
  /\ pc # "idle" =>
       providerCalls = (IF SchemaAccepts(req) /\ Truthy(apiKey) THEN 1 ELSE 0)
  /\ providerFailed => providerCalls = 1

C15_Witness ==
  /\ variant = "sdk"
  /\ pc = "done"
  /\ providerFailed
  /\ providerCalls = 1
  /\ state = "errored"

NonDataLine(line) == ~StartsWith(line, DataPrefix)

\* The lines that begin with the prefix, in order.
DataLinesOf(lines) == SelectSeq(lines, LAMBDA l : ~NonDataLine(l))

\* C16: lines that do not begin with "data: " cause no enqueue, no parse
\* attempt and no error, and leave the stream's state alone: when the lines
\* delivered so far, each delivered whole, hold such lines, JSON.parse was
\* called once for each of the other lines and never more, the fragments are
\* those of the other lines alone, and the stream has left the readable state
\* only by end of data, a read that threw, or the caller.
C16_NonDataLinesIgnored ==
  LET lines == DeliveredLines IN
  (variant = "fetch" /\ pc \in {"streaming", "done"} /\ ~cutLine
     /\ \E i \in 1..Len(lines) : NonDataLine(lines[i]))
    => /\ parseAttempts = Len(DataLinesOf(lines))
       /\ ~cancelled => emitted = WellFormedFragments(DataLinesOf(lines))
       /\ state = "readable" \/ sawDone \/ readThrew \/ cancelled
       /\ state = "errored" => readThrew

C16_Witness ==
  /\ FetchStreamComplete
  /\ ~cutLine
  /\ provider = Wire(<<<<":", " ", "a">>, LineE>>)
  /\ parseAttempts = 1
  /\ state = "closed"
  /\ emitted = <<Encode(<<"E9">>)>>

\* The documents of the lines that begin with the prefix and parse, in order.
ParsedDocs(lines) ==
  LET parsed(l) == JSONParse(Slice(l, PrefixLen))
      events == SelectSeq(lines, LAMBDA l : StartsWith(l, DataPrefix) /\ parsed(l).ok)
  IN [i \in 1..Len(events) |-> parsed(events[i]).doc]

\* What one parsed event is to contribute: its first text, if it has one.
EventFragment(doc) ==
  IF doc.isNull \/ FirstTextPart(doc) = <<>> THEN <<>>
  ELSE <<Encode(FirstTextPart(doc))>>

\* C17: each parsed event contributes at most one fragment, the first text
\* part of its first candidate, and it is enqueued before the next read is
\* issued; an event without candidates, content, parts or text contributes
\* nothing and errors nothing; later candidates and parts are not forwarded.
\* So whenever a read is pending or the loop has ended, the fragments are
\* those of the events delivered so far, one for one and in order.
C17_OneFragmentPerEvent ==
  (variant = "fetch" /\ pc \in {"streaming", "done"} /\ ~cutLine /\ ~cancelled)
    => LET docs == ParsedDocs(DeliveredLines) IN
       /\ emitted = Flatten([i \in 1..Len(docs) |-> EventFragment(docs[i])])
       /\ Len(emitted) <= Len(docs)
       /\ state = "errored" => readThrew

C17_Witness ==
  /\ variant = "fetch"
  /\ pc = "streaming"
  /\ ~cutLine
  /\ ~cancelled
  /\ provider = Wire(<<Line(<<JHead, "a", JNext, LeadByte, ContByte, JTail>>), LineE>>)
  /\ pos = Len(provider)
  /\ emitted = <<Encode(<<"a">>), Encode(<<"E9">>)>>

\* C18: the producer respects backpressure: while the stream's queue is full
\* (the caller is not taking fragments) no upstream read is pending.
C18_NoReadWhileFull ==
  (pc = "streaming" /\ state = "readable") => queued < HighWaterMark

\* An error inside handle after validation and the key test, other than a
\* provider status that is not ok: no 200 response although the provider was
\* called and gave no failure status.
InternalError ==
  /\ pc = "responded"
  /\ providerCalls = 1
  /\ resp.status # 200
  /\ providerStatus \in {None, Some(200)}

\* C19: no exception leaves handle: a thrown fetch, a provider document that
\* cannot be parsed in buffered mode and a missing stream body each give one
\* response with status 500 and the JSON body {success: false, error: <string>}.
C19_NoExceptionEscapes ==
  /\ ~escaped
  /\ InternalError
       => /\ resp.kind = "json"
          /\ resp.status = 500
          /\ resp.success = Some(FALSE)
          /\ IsSome(resp.error)
          /\ ~resp.errors

\* The request's stream flag, true when the request leaves it out.
StreamFlag == IF IsSome(req.stream) THEN Get(req.stream) ELSE TRUE

\* The provider answered the call with something to translate: a body to
\* read, or a JSON object.
ProviderAnswered ==
  \/ state # "none" /\ ~providerFailed
  \/ IsSome(document) /\ ~Get(document).doc.isNull

\* C20: the stream flag alone selects the path.  With stream true, or left
\* out, the provider's streaming method is called and a success response is
\* a plain-text stream with no JSON object in it; with stream false the
\* buffered method is called and a success response is one JSON object with
\* success true and the resolved conversation identifier, and no stream.
C20_StreamFlagSelectsPath ==
  (pc # "idle" /\ providerCalls = 1)
    => /\ called = (IF StreamFlag THEN "streamGenerateContent" ELSE "generateContent")
       /\ translator # (IF StreamFlag THEN "buffered" ELSE "stream")
       /\ ProviderAnswered => resp.status = 200
       /\ resp.status = 200 =>
            IF StreamFlag
            THEN /\ resp.kind = "stream"
                 /\ state # "none"
                 /\ resp.success = None /\ resp.message = None
                 /\ resp.conversation_id = None /\ resp.usage = None
            ELSE /\ resp.kind = "json"
                 /\ state = "none" /\ emitted = <<>>
                 /\ resp.success = Some(TRUE)
                 /\ IsSome(resp.message)
                 /\ IsSome(resp.conversation_id)
                 /\ Get(resp.conversation_id) \in ResolvedIds

C20_Witness ==
  /\ req.stream = None
  /\ called = "streamGenerateContent"
  /\ resp.kind = "stream"
  /\ resp.status = 200
  /\ sawDone
  /\ emitted # <<>>

Terminal(st) == st \in {"closed", "errored"}

\* The step issues an upstream read: the loop goes on to wait for the next
\* chunk.
IssuesRead ==
  /\ pc' = "streaming"
  /\ pc # "streaming" \/ pos' # pos \/ sdkRest' # sdkRest

\* C21: the caller-facing stream reaches at most one terminal state: once it
\* is closed or errored it stays what it is, and the producer enqueues no
\* further fragment and issues no further upstream read.
C21_TerminalIsFinal ==
  [][ Terminal(state)
      => (state' = state /\ emitted' = emitted /\ ~IssuesRead)
    ]_vars

\* C22: when every pending upstream read settles, a streaming loop that has
\* begun ends, and the caller-facing stream is then closed or errored,
\* whatever malformed, non-data and empty lines the upstream carried.
C22_LoopTerminates ==
  (pc \in {"calling", "streaming"}) ~> (pc = "done" /\ Terminal(state))

C22_Witness ==
  /\ variant = "fetch"
  /\ pc = "done"
  /\ provider = Wire(<<LineBad>>)
  /\ parseAttempts >= 1
  /\ emitted = <<>>
  /\ state = "closed"
  /\ ~cancelled

====
